---- MODULE Spec2Model ----
(***************************************************************************)
(* Model of node-api-mock: an Express application (src/app.js) that keeps  *)
(* an in-memory array of customers and a factory/validator                 *)
(* (src/utils/customerFactory.js) that builds records and locates them.    *)
(*                                                                         *)
(* JavaScript values are modelled as tagged records [t, n, s]; text is a   *)
(* sequence of one-character strings so that Number.prototype.toString,    *)
(* parseFloat and ToNumber are computed character by character.            *)
(***************************************************************************)
EXTENDS Integers, Sequences, FiniteSets

\* ------------------------------------------------------------------------
\* Bounds of the model
\* ------------------------------------------------------------------------

\* number of requests served in one behaviour of Spec
MaxClock == 5

\* number of requests served in one behaviour of SpecFields
MaxFieldClock == 2

\* the create handler is not taken beyond this many stored customers
MaxLen == 3

\* ------------------------------------------------------------------------
\* JavaScript values
\* ------------------------------------------------------------------------

Undefined == [t |-> "undefined", n |-> 0, s |-> <<>>]

Num(k) == [t |-> "number", n |-> k, s |-> <<>>]

Str(chars) == [t |-> "string", n |-> 0, s |-> chars]

Bool(b) == [t |-> "boolean", n |-> IF b THEN 1 ELSE 0, s |-> <<>>]

NaN == [t |-> "NaN", n |-> 0, s |-> <<>>]

NegInfinity == [t |-> "-Infinity", n |-> 0, s |-> <<>>]

PosInfinity == [t |-> "Infinity", n |-> 0, s |-> <<>>]

\* typeof v === 'number'
IsNumber(v) == v.t \in {"number", "NaN", "-Infinity", "Infinity"}

\* ToBoolean: undefined, false, 0, NaN and '' are falsy
Truthy(v) ==
  CASE v.t = "undefined" -> FALSE
    [] v.t = "boolean" -> v.n = 1
    [] v.t = "number" -> v.n # 0
    [] v.t = "NaN" -> FALSE
    [] v.t = "string" -> v.s # <<>>
    [] OTHER -> TRUE

\* a || b
Or(a, b) == IF Truthy(a) THEN a ELSE b

\* a === b
StrictEq(a, b) == a.t # "NaN" /\ b.t # "NaN" /\ a = b

Digits == <<"0", "1", "2", "3", "4", "5", "6", "7", "8", "9">>

IsDigit(c) == \E d \in 1..10 : Digits[d] = c

DigitVal(c) == (CHOOSE d \in 1..10 : Digits[d] = c) - 1

RECURSIVE NatToChars(_)
NatToChars(k) ==
  IF k < 10 THEN <<Digits[k + 1]>>
  ELSE NatToChars(k \div 10) \o <<Digits[(k % 10) + 1]>>

\* Number.prototype.toString / String(v), as a character sequence
toString(v) ==
  CASE v.t = "number" ->
         IF v.n < 0 THEN <<"-">> \o NatToChars(0 - v.n) ELSE NatToChars(v.n)
    [] v.t = "NaN" -> <<"N", "a", "N">>
    [] v.t = "-Infinity" -> <<"-", "I", "n", "f", "i", "n", "i", "t", "y">>
    [] v.t = "Infinity" -> <<"I", "n", "f", "i", "n", "i", "t", "y">>
    [] v.t = "string" -> v.s
    [] v.t = "boolean" ->
         IF v.n = 1 THEN <<"t", "r", "u", "e">> ELSE <<"f", "a", "l", "s", "e">>
    [] OTHER -> <<"u", "n", "d", "e", "f", "i", "n", "e", "d">>

\* number of leading characters of chars that are decimal digits
RECURSIVE DigitPrefixLen(_)
DigitPrefixLen(chars) ==
  IF chars = <<>> \/ ~IsDigit(Head(chars)) THEN 0
  ELSE 1 + DigitPrefixLen(Tail(chars))

\* value of a sequence of decimal digits
RECURSIVE DigitsValue(_)
DigitsValue(chars) ==
  IF chars = <<>> THEN 0
  ELSE 10 * DigitsValue(SubSeq(chars, 1, Len(chars) - 1))
       + DigitVal(chars[Len(chars)])

RECURSIVE TrimLeft(_)
TrimLeft(chars) ==
  IF chars # <<>> /\ Head(chars) = " " THEN TrimLeft(Tail(chars)) ELSE chars

RECURSIVE TrimRight(_)
TrimRight(chars) ==
  IF chars # <<>> /\ chars[Len(chars)] = " "
  THEN TrimRight(SubSeq(chars, 1, Len(chars) - 1)) ELSE chars

InfinityChars == <<"I", "n", "f", "i", "n", "i", "t", "y">>

StartsWith(chars, prefix) ==
  Len(chars) >= Len(prefix) /\ SubSeq(chars, 1, Len(prefix)) = prefix

\* parseFloat on text without a fraction or an exponent: leading blanks are
\* skipped, then an optional sign, then 'Infinity' or the longest run of
\* digits; whatever follows is ignored; no digits gives NaN
ParseFloatChars(chars) ==
  LET t == TrimLeft(chars)
      neg == t # <<>> /\ Head(t) = "-"
      signed == t # <<>> /\ Head(t) \in {"-", "+"}
      body == IF signed THEN Tail(t) ELSE t
      k == DigitPrefixLen(body)
      mag == DigitsValue(SubSeq(body, 1, k))
  IN  IF StartsWith(body, InfinityChars)
      THEN (IF neg THEN NegInfinity ELSE PosInfinity)
      ELSE IF k = 0 THEN NaN
      ELSE Num(IF neg THEN 0 - mag ELSE mag)

\* parseFloat(v): the argument is converted to text first
parseFloat(v) == ParseFloatChars(toString(v))

\* ToNumber on text: the whole trimmed text has to be a number; '' is 0
ToNumberChars(chars) ==
  LET t == TrimRight(TrimLeft(chars))
      neg == t # <<>> /\ Head(t) = "-"
      signed == t # <<>> /\ Head(t) \in {"-", "+"}
      body == IF signed THEN Tail(t) ELSE t
  IN  IF t = <<>> THEN Num(0)
      ELSE IF body = InfinityChars
      THEN (IF neg THEN NegInfinity ELSE PosInfinity)
      ELSE IF body # <<>> /\ DigitPrefixLen(body) = Len(body)
      THEN Num(IF neg THEN 0 - DigitsValue(body) ELSE DigitsValue(body))
      ELSE NaN

\* ToNumber(v)
ToNumber(v) ==
  CASE IsNumber(v) -> v
    [] v.t = "string" -> ToNumberChars(v.s)
    [] v.t = "boolean" -> Num(v.n)
    [] OTHER -> NaN

\* a + 1 on numbers
PlusOne(v) == IF v.t = "number" THEN Num(v.n + 1) ELSE v

\* the larger of two numbers, as Math.max folds them
Max2(a, b) ==
  CASE a.t = "NaN" \/ b.t = "NaN" -> NaN
    [] a.t = "Infinity" \/ b.t = "Infinity" -> PosInfinity
    [] a.t = "-Infinity" -> b
    [] b.t = "-Infinity" -> a
    [] OTHER -> IF a.n >= b.n THEN a ELSE b

\* Math.max(...values): -Infinity for no argument
RECURSIVE MathMax(_)
MathMax(values) ==
  IF values = <<>> THEN NegInfinity
  ELSE Max2(ToNumber(Head(values)), MathMax(Tail(values)))

\* ------------------------------------------------------------------------
\* Customers, requests and responses
\* ------------------------------------------------------------------------

\* the fields of a Customer other than id
DataFields ==
  {"name", "address", "phone", "email", "lastupdate", "country", "active",
   "contact"}

\* a JSON body without any field; express.json() leaves req.body = {} when
\* the request carries no body
EmptyBody ==
  [id |-> Undefined, name |-> Undefined, address |-> Undefined,
   phone |-> Undefined, email |-> Undefined, lastupdate |-> Undefined,
   country |-> Undefined, active |-> Undefined, contact |-> Undefined]

\* a query string without id and qty; req.query is always an object
EmptyQuery == [id |-> Undefined, qty |-> Undefined]

NoName == Str(<<"N", "o", " ", "N", "a", "m", "e">>)

NoAddress == Str(<<"N", "o", " ", "A", "d", "d", "r", "e", "s", "s">>)

NoPhone == Str(<<"N", "o", " ", "P", "h", "o", "n", "e">>)

NoEmail == Str(<<"N", "o", " ", "E", "m", "a", "i", "l">>)

NoCountry == Str(<<"N", "o", " ", "C", "o", "u", "n", "t", "r", "y">>)

NoContact == Str(<<"N", "o", " ", "C", "o", "n", "t", "a", "c", "t">>)

\* new Date().toISOString() when the clock reads c: the text 'T' followed by
\* the reading
Now(c) == Str(<<"T">> \o NatToChars(c))

\* customerExamples.map(c => c.id)
RECURSIVE MapId(_)
MapId(customers) ==
  IF customers = <<>> THEN <<>>
  ELSE <<Head(customers).id>> \o MapId(Tail(customers))

\* the value thrown by changeOrDelete when validate returns -1
IdNotFound == "ID was not found!"

\* the value thrown by changeOrDelete when the body or query is missing
BodyNotSent == "Body was not sent!"

\* the response before any request was served
NoResponse ==
  [status |-> 0, error |-> "", customer |-> EmptyBody, customers |-> <<>>]

\* res.send(customer)
SendCustomer(c) ==
  [status |-> 200, error |-> "", customer |-> c, customers |-> <<>>]

\* res.send({customers: result})
SendCustomers(list) ==
  [status |-> 200, error |-> "", customer |-> EmptyBody, customers |-> list]

\* the error handler: a thrown string is answered with status 400
SendError(err) ==
  [status |-> 400, error |-> err, customer |-> EmptyBody, customers |-> <<>>]

\* ------------------------------------------------------------------------
\* customerFactory
\* ------------------------------------------------------------------------

\* generate with the active flag copied from the body without a default
generate_ActiveAsSent(r, keepID, customers, c) ==
  LET bodyId == IF ~keepID THEN PlusOne(MathMax(MapId(customers)))
                ELSE Or(r.body.id, r.query.id)
  IN  [id |-> parseFloat(bodyId),
       name |-> Or(r.body.name, NoName),
       address |-> Or(r.body.address, NoAddress),
       phone |-> Or(r.body.phone, NoPhone),
       email |-> Or(r.body.email, NoEmail),
       lastupdate |-> Or(r.body.lastupdate, Now(c)),
       country |-> Or(r.body.country, NoCountry),
       active |-> r.body.active,
       contact |-> Or(r.body.contact, NoContact)]

\* generate(req, keepID) on the store `customers` when the clock reads c
generate(r, keepID, customers, c) ==
  LET bodyId == IF ~keepID THEN PlusOne(MathMax(MapId(customers)))
                ELSE Or(r.body.id, r.query.id)
  IN  [id |-> parseFloat(bodyId),
       name |-> Or(r.body.name, NoName),
       address |-> Or(r.body.address, NoAddress),
       phone |-> Or(r.body.phone, NoPhone),
       email |-> Or(r.body.email, NoEmail),
       lastupdate |-> Or(r.body.lastupdate, Now(c)),
       country |-> Or(r.body.country, NoCountry),
       active |-> Or(r.body.active, Bool(TRUE)),
       contact |-> Or(r.body.contact, NoContact)]

\* f.id.toString() === req[type].id
IdMatches(f, given) == StrictEq(Str(toString(f.id)), given)

\* validate(req, type): the 0-based index of the first customer the filter
\* keeps (indexOf of search[0], found by identity), -1 otherwise
validate(r, type, customers) ==
  LET given == IF type = "body" THEN r.body.id ELSE r.query.id
      hits == {i \in 1..Len(customers) : IdMatches(customers[i], given)}
  IN  IF ~Truthy(given) THEN -1
      ELSE IF hits # {} THEN (CHOOSE i \in hits : \A j \in hits : i <= j) - 1
      ELSE -1

\* ------------------------------------------------------------------------
\* Array operations
\* ------------------------------------------------------------------------

\* the start index Array.prototype.splice and slice derive from an argument
RelativeIndex(k, len) ==
  IF k < 0 THEN (IF len + k < 0 THEN 0 ELSE len + k)
  ELSE IF k > len THEN len ELSE k

\* splice with a delete count of 0: the items are inserted, nothing removed
Splice_InsertOnly(array, start, items) ==
  LET from == RelativeIndex(start, Len(array))
  IN  SubSeq(array, 1, from) \o items \o SubSeq(array, from + 1, Len(array))

\* array.splice(start, 1, ...items): the array afterwards
Splice(array, start, items) ==
  LET len == Len(array)
      from == RelativeIndex(start, len)
      count == IF len - from < 1 THEN len - from ELSE 1
  IN  SubSeq(array, 1, from) \o items \o SubSeq(array, from + count + 1, len)

\* ToIntegerOrInfinity of a slice bound given as any value
SliceEnd(v, len) ==
  LET k == ToNumber(v)
  IN  CASE k.t = "number" -> RelativeIndex(k.n, len)
        [] k.t = "Infinity" -> len
        [] OTHER -> 0

\* array.slice(0, end)
Slice(array, end) == SubSeq(array, 1, SliceEnd(end, Len(array)))

\* result.filter(f => f.id === req.query.id)
RECURSIVE FilterById(_, _)
FilterById(customers, given) ==
  IF customers = <<>> THEN <<>>
  ELSE (IF StrictEq(Head(customers).id, given) THEN <<Head(customers)>>
        ELSE <<>>) \o FilterById(Tail(customers), given)

\* ------------------------------------------------------------------------
\* State
\* ------------------------------------------------------------------------

VARIABLES customerExamples, req, res, clock

vars == <<customerExamples, req, res, clock>>

\* a customer of public/customerExamples.json
SeedCustomer(k) ==
  [id |-> Num(k), name |-> Str(<<"A">>), address |-> Str(<<"R", "d">>),
   phone |-> Str(<<"5", "5", "5">>), email |-> Str(<<"a", "@", "b">>),
   lastupdate |-> Str(<<"T", "0">>), country |-> Str(<<"B", "R">>),
   active |-> Bool(TRUE), contact |-> Str(<<"C">>)]

\* the datasets the store is loaded from
SeedStores ==
  {<<SeedCustomer(1)>>, <<SeedCustomer(1), SeedCustomer(2)>>,
   <<SeedCustomer(2), SeedCustomer(1)>>}

NoRequest == [method |-> "", body |-> EmptyBody, query |-> EmptyQuery]

Init ==
  /\ customerExamples \in SeedStores
  /\ req = NoRequest
  /\ res = NoResponse
  /\ clock = 0

\* ------------------------------------------------------------------------
\* Handlers
\* ------------------------------------------------------------------------

\* app.get('/customers')
Get(r) ==
  /\ r.method = "GET"
  /\ LET byId == IF Truthy(r.query.id)
                 THEN FilterById(customerExamples, r.query.id)
                 ELSE customerExamples
         result == IF Truthy(r.query.qty) THEN Slice(byId, r.query.qty)
                   ELSE byId
     IN  res' = SendCustomers(result)
  /\ req' = r
  /\ clock' = clock + 1
  /\ UNCHANGED customerExamples

\* app.post('/customers')
Post(r) ==
  /\ r.method = "POST"
  /\ Len(customerExamples) < MaxLen
  /\ LET customerNew == generate(r, FALSE, customerExamples, clock + 1)
     IN  /\ customerExamples' = Append(customerExamples, customerNew)
         /\ res' = SendCustomer(customerNew)
  /\ req' = r
  /\ clock' = clock + 1

\* changeOrDelete throwing 'Body was not sent!' also when the id is missing
changeOrDelete_MissingId(r, update, customers, c) ==
  LET source == IF update THEN r.body ELSE r.query
      index == validate(r, IF update THEN "body" ELSE "query", customers)
      customerEdit ==
        [generate(r, TRUE, customers, c) EXCEPT !.lastupdate = Now(c)]
  IN  IF source = Undefined \/ source.id = Undefined
      THEN [customers |-> customers, res |-> SendError(BodyNotSent)]
      ELSE IF index = -1
      THEN [customers |-> customers, res |-> SendError(IdNotFound)]
      ELSE [customers |->
              IF update THEN Splice(customers, index, <<customerEdit>>)
              ELSE Splice(customers, index, <<>>),
            res |-> SendCustomer(customerEdit)]

\* changeOrDelete splicing before it looks at what validate returned
changeOrDelete_SpliceFirst(r, update, customers, c) ==
  LET source == IF update THEN r.body ELSE r.query
      index == validate(r, IF update THEN "body" ELSE "query", customers)
      customerEdit ==
        [generate(r, TRUE, customers, c) EXCEPT !.lastupdate = Now(c)]
      spliced == IF update THEN Splice(customers, index, <<customerEdit>>)
                 ELSE Splice(customers, index, <<>>)
  IN  IF source = Undefined
      THEN [customers |-> customers, res |-> SendError(BodyNotSent)]
      ELSE IF index = -1
      THEN [customers |-> spliced, res |-> SendError(IdNotFound)]
      ELSE [customers |-> spliced, res |-> SendCustomer(customerEdit)]

\* changeOrDelete(req, res, update) on the store `customers` when the clock
\* reads c: the store afterwards and the response. An absent body or query
\* object is the value Undefined; every object is truthy.
changeOrDelete(r, update, customers, c) ==
  LET source == IF update THEN r.body ELSE r.query
      index == validate(r, IF update THEN "body" ELSE "query", customers)
      customerEdit ==
        [generate(r, TRUE, customers, c) EXCEPT !.lastupdate = Now(c)]
  IN  IF source = Undefined
      THEN [customers |-> customers, res |-> SendError(BodyNotSent)]
      ELSE IF index = -1
      THEN [customers |-> customers, res |-> SendError(IdNotFound)]
      ELSE [customers |->
              IF update THEN Splice(customers, index, <<customerEdit>>)
              ELSE Splice(customers, index, <<>>),
            res |-> SendCustomer(customerEdit)]

\* app.put('/customers')
Put(r) ==
  /\ r.method = "PUT"
  /\ LET done == changeOrDelete(r, TRUE, customerExamples, clock + 1)
     IN  /\ customerExamples' = done.customers
         /\ res' = done.res
  /\ req' = r
  /\ clock' = clock + 1

\* app.delete('/customers')
Delete(r) ==
  /\ r.method = "DELETE"
  /\ LET done == changeOrDelete(r, FALSE, customerExamples, clock + 1)
     IN  /\ customerExamples' = done.customers
         /\ res' = done.res
  /\ req' = r
  /\ clock' = clock + 1

\* ------------------------------------------------------------------------
\* Requests
\* ------------------------------------------------------------------------

MinusInfinityText == Str(<<"-", "I", "n", "f", "i", "n", "i", "t", "y">>)

\* ids a JSON body carries: none, a number, and texts
BodyIds == {Undefined, Num(1), Str(<<"1">>), Str(<<"2">>), MinusInfinityText}

\* ids a query string carries: none, and texts
QueryIds == {Undefined, Str(<<"1">>), Str(<<"2">>), MinusInfinityText}

\* qty values a query string carries
QueryQtys == {Undefined, Str(<<"0">>), Str(<<"1">>), Str(<<"-", "1">>)}

Request(m, b, q) == [method |-> m, body |-> b, query |-> q]

\* requests that differ in the ids they carry
IdRequests ==
  {Request("GET", EmptyBody, [id |-> i, qty |-> n]) :
     i \in QueryIds \ {MinusInfinityText}, n \in QueryQtys}
  \cup {Request("POST", [EmptyBody EXCEPT !.id = i], EmptyQuery) :
          i \in {Undefined, Str(<<"1">>)}}
  \cup {Request("PUT", [EmptyBody EXCEPT !.id = i], EmptyQuery) :
          i \in BodyIds}
  \cup {Request("DELETE", [EmptyBody EXCEPT !.id = i],
                [id |-> q, qty |-> Undefined]) :
          i \in {Undefined, Str(<<"2">>)}, q \in QueryIds}

\* values a JSON body carries in a field other than id: falsy and truthy ones
FieldValues == {Str(<<>>), Str(<<"B">>), Bool(FALSE), Bool(TRUE), Num(0)}

\* bodies without id: the empty one, those that supply a single field and
\* those that supply every field with the same value
FieldBodies ==
  {EmptyBody}
  \cup {[EmptyBody EXCEPT ![f] = v] : f \in DataFields, v \in FieldValues}
  \cup {[f \in DataFields \cup {"id"} |-> IF f = "id" THEN Undefined ELSE v] :
          v \in FieldValues}

\* requests that differ in the fields their bodies supply
FieldRequests ==
  {Request("GET", EmptyBody, [id |-> Str(<<"1">>), qty |-> Undefined])}
  \cup {Request("POST", b, EmptyQuery) : b \in FieldBodies}
  \cup {Request("PUT", [b EXCEPT !.id = Str(<<"1">>)], EmptyQuery) :
          b \in FieldBodies}
  \cup {Request("PUT", [EmptyBody EXCEPT !.id = Str(<<"3">>)], EmptyQuery)}
  \cup {Request("DELETE", b, [id |-> Str(<<"1">>), qty |-> Undefined]) :
          b \in {EmptyBody, [EmptyBody EXCEPT !.active = Bool(FALSE)]}}

\* ------------------------------------------------------------------------
\* Specifications
\* ------------------------------------------------------------------------

Next ==
  \/ \E r \in IdRequests : clock < MaxClock /\ Get(r)
  \/ \E r \in IdRequests : clock < MaxClock /\ Post(r)
  \/ \E r \in IdRequests : clock < MaxClock /\ Put(r)
  \/ \E r \in IdRequests : clock < MaxClock /\ Delete(r)

Spec == Init /\ [][Next]_vars

NextFields ==
  \/ \E r \in FieldRequests : clock < MaxFieldClock /\ Get(r)
  \/ \E r \in FieldRequests : clock < MaxFieldClock /\ Post(r)
  \/ \E r \in FieldRequests : clock < MaxFieldClock /\ Put(r)
  \/ \E r \in FieldRequests : clock < MaxFieldClock /\ Delete(r)

\* the store loaded from a dataset of two customers
InitFields ==
  /\ customerExamples = <<SeedCustomer(2), SeedCustomer(1)>>
  /\ req = NoRequest
  /\ res = NoResponse
  /\ clock = 0

SpecFields == InitFields /\ [][NextFields]_vars

\* ------------------------------------------------------------------------
\* Properties
\* ------------------------------------------------------------------------

\* the step serves a request of one of the methods
Serves(methods) == clock' = clock + 1 /\ req'.method \in methods

\* the last request was answered with a customer
Succeeded == res.status = 200

\* the array without its k-th element (k counted from 1)
Without(array, k) == SubSeq(array, 1, k - 1) \o SubSeq(array, k + 1, Len(array))

\* the 1-based positions of the customers whose id, as text, is the text
\* of the given id
TextMatches(customers, given) ==
  {i \in 1..Len(customers) : toString(customers[i].id) = toString(given)}

\* the documented default of a field other than id and lastupdate
DefaultOf(f) ==
  CASE f = "name" -> NoName
    [] f = "address" -> NoAddress
    [] f = "phone" -> NoPhone
    [] f = "email" -> NoEmail
    [] f = "country" -> NoCountry
    [] f = "contact" -> NoContact
    [] f = "active" -> Bool(TRUE)

\* C1: in every reachable state no two customers of the store have the
\* same id.
C1_UniqueIds ==
  \A i, j \in 1..Len(customerExamples) :
    i # j => customerExamples[i].id # customerExamples[j].id

\* C2: a create request on a non-empty store returns a customer whose id is
\* the maximum stored id plus 1, which is the id of no stored customer, and
\* appends that customer to the store.
C2_CreateAssignsFreshMaxPlusOne ==
  [][(Serves({"POST"}) /\ customerExamples # <<>>) =>
       /\ res'.customer.id = PlusOne(MathMax(MapId(customerExamples)))
       /\ \A i \in 1..Len(customerExamples) :
            customerExamples[i].id # res'.customer.id
       /\ customerExamples' = Append(customerExamples, res'.customer)]_vars

\* the last request was an update without id in its body or a delete
\* without id in its query
LacksId ==
  \/ req.method = "PUT" /\ req.body.id = Undefined
  \/ req.method = "DELETE" /\ req.query.id = Undefined

\* C3 as stated: an update without id in the body and a delete without id
\* in the query fail with 'Body was not sent!'.
C3_MissingIdIsMissingInput == LacksId => res.error = BodyNotSent

\* C3 as amended: an update whose body carries no id and a delete whose
\* query carries no id fail with 'ID was not found!', not with
\* 'Body was not sent!'.
C3_MissingIdIsNotFound ==
  LacksId => res.status = 400 /\ res.error = IdNotFound

C3_Witness ==
  /\ req.method = "DELETE"
  /\ req.query.id = Undefined
  /\ req.body.id # Undefined
  /\ res.error = IdNotFound

\* what an update leaves around the located position: same length, every
\* other customer unchanged in place, and the id of the request at the
\* located position
UpdateInPlace(k) ==
  /\ Len(customerExamples') = Len(customerExamples)
  /\ \A i \in 1..Len(customerExamples) :
       i # k => customerExamples'[i] = customerExamples[i]
  /\ toString(customerExamples'[k].id) = toString(req'.body.id)

\* C4 as stated: after a successful update the store has the same length,
\* the other customers are unchanged, and the located customer has the
\* id of the request, the value of the body for every field the body
\* supplies and the default for every field it omits.
C4_UpdateTakesSuppliedValues ==
  [][(Serves({"PUT"}) /\ res'.status = 200) =>
       LET k == validate(req', "body", customerExamples) + 1
       IN  /\ UpdateInPlace(k)
           /\ \A f \in DataFields :
                customerExamples'[k][f] =
                  IF req'.body[f] # Undefined THEN req'.body[f]
                  ELSE IF f = "lastupdate" THEN Now(clock')
                  ELSE DefaultOf(f)]_vars

\* C4 as amended: after a successful update the store has the same length,
\* the other customers are unchanged, and the located customer has the id
\* of the request, the value of the body for every field other than
\* lastupdate that the body supplies with a truthy value, the default for
\* every such field the body omits or supplies with a falsy value, and the
\* time of the update as lastupdate whatever the body supplies.
C4_UpdateTakesTruthyValues ==
  [][(Serves({"PUT"}) /\ res'.status = 200) =>
       LET k == validate(req', "body", customerExamples) + 1
       IN  /\ UpdateInPlace(k)
           /\ \A f \in DataFields :
                customerExamples'[k][f] =
                  IF f = "lastupdate" THEN Now(clock')
                  ELSE IF Truthy(req'.body[f]) THEN req'.body[f]
                  ELSE DefaultOf(f)]_vars

C4_Witness ==
  /\ req.method = "PUT"
  /\ Succeeded
  /\ Len(customerExamples) = 2
  /\ customerExamples[2] = res.customer
  /\ req.body.name = Str(<<>>)
  /\ res.customer.name = NoName
  /\ res.customer.address = NoAddress
  /\ customerExamples[1].name = Str(<<"A">>)

\* C5: after a delete with id x succeeded, a delete with the same id x that
\* follows it immediately fails with 'ID was not found!' and removes
\* nothing.
C5_SecondDeleteNotFound ==
  [][(/\ req.method = "DELETE"
      /\ Succeeded
      /\ Serves({"DELETE"})
      /\ req'.query.id = req.query.id) =>
       /\ res'.error = IdNotFound
       /\ customerExamples' = customerExamples]_vars

\* the last request was a create or an update that produced a customer
Produced == req.method \in {"POST", "PUT"} /\ Succeeded

C7_ListByIdText ==
  (req.method = "GET" /\ req.query.id # Undefined /\ req.query.qty = Undefined)
    => /\ Len(res.customers) = Cardinality(TextMatches(customerExamples, req.query.id))
       /\ \A i \in 1..Len(res.customers) :
            toString(res.customers[i].id) = req.query.id.s

\* C8: the customer a successful delete returns has the id of the customer
\* the delete removed from the store.
C8_DeleteReturnsRemovedId ==
  [][(Serves({"DELETE"}) /\ res'.status = 200) =>
       \E k \in 1..Len(customerExamples) :
         /\ customerExamples' = Without(customerExamples, k)
         /\ customerExamples[k].id = res'.customer.id]_vars

\* the id an update or a delete hands to validate
GivenId(r) == IF r.method = "PUT" THEN r.body.id ELSE r.query.id

\* C9: validate returns the position of the first customer whose id as text
\* is the given id, be that id a number or a text, and -1 only when no
\* customer has it.
C9_ValidateNormalizesId ==
  [][(Serves({"PUT", "DELETE"}) /\ GivenId(req') # Undefined) =>
       LET hits == TextMatches(customerExamples, GivenId(req'))
           index == validate(req', IF req'.method = "PUT" THEN "body" ELSE "query",
                             customerExamples)
       IN  /\ hits = {} => index = -1
           /\ hits # {} => index + 1 \in hits /\ \A j \in hits : index + 1 <= j]_vars

\* C10: an update or a delete that fails leaves the store as it was.
C10_FailureLeavesStore ==
  [][(Serves({"PUT", "DELETE"}) /\ res'.status # 200) =>
       customerExamples' = customerExamples]_vars

C10_Witness ==
  /\ req.method = "DELETE"
  /\ res.error = IdNotFound
  /\ req.query.id = Str(<<"2">>)
  /\ Len(customerExamples) = 2

====
